---- MODULE Spec2Model ----
(***************************************************************************)
(* coreos-version-checker: the release repository (release.go) and the     *)
(* poll scheduler (main.go).                                               *)
(*                                                                         *)
(* Text that the code scans character by character (release notes) is a    *)
(* sequence of one-character strings.  A *float64 / *time.Time is a        *)
(* sequence of length 0 (nil) or 1.  CVSS scores are held in tenths        *)
(* (5.4 is 54), so the seed -1 of the running maximum is -10.              *)
(*                                                                         *)
(* Spec is the repository with its readers and changing files; SpecTicker  *)
(* lets periods of the poll interval elapse while a cycle runs; SpecRetry  *)
(* follows r.client.Do attempt by attempt; SpecFair adds fairness.         *)
(***************************************************************************)
EXTENDS Integers, Sequences, FiniteSets, TLC

VARIABLES
    pc,               \* position of the poll goroutine (startPoll)
    channel,          \* releaseRepository.channel
    installedVersion, \* releaseRepository.installedVersion
    latestVersion,    \* releaseRepository.latestVersion
    err,              \* releaseRepository.err
    writer,           \* the RWMutex is held exclusively
    readers,          \* holders of the RWMutex in shared mode
    scene,            \* which of Worlds the files on the host and the endpoints are in
    cycleLog,         \* refresh steps called in the current cycle, with their results
    cycleErr,         \* err of startPoll: the value pollCoreOSReleases returned
    lastGroup,        \* local `channel` of GetChannel: the GROUP= value last read
    uri,              \* local `uri` of GetLatestVersion: the channel it was built from
    caller,           \* which refresh called Get
    release,          \* parameter `release` of Get
    releaseNotes,     \* local of Get
    releasedOn,       \* local of Get
    cveIDs,           \* local of Get
    securityFixes,    \* local of Get
    maxCVSS,          \* local of Get
    enriched,         \* the *coreOSRelease Get returned to the refresh
    fetches,          \* catalog fetches issued in the current cycle
    changes,          \* how often the files and endpoints have changed so far
    ticker,           \* startPoll has created its time.Ticker
    pollC,            \* ticks waiting in poll.C, a channel of capacity 1
    fired,            \* periods of the interval elapsed since the current cycle began
    attempt           \* failed HTTP attempts of the client.Do call in progress

vars == <<pc, channel, installedVersion, latestVersion, err, writer, readers,
          scene, cycleLog, cycleErr, lastGroup, uri, caller, release,
          releaseNotes, releasedOn, cveIDs, securityFixes, maxCVSS, enriched,
          fetches, changes, ticker, pollC, fired, attempt>>

(***************************************************************************)
(* Bounds and program constants                                            *)
(***************************************************************************)
NumReaders == 2

MaxChanges == 1

\* periods of the interval followed within one cycle and the wait after it
MaxFired == 2

\* retryablehttp.Client.RetryMax
RetryMax == 5

MaxCVSSSeed == -10

Nil == "nil"

Readers == 1..NumReaders

Poller == 0

Digit == {"0", "1", "2", "3", "4", "5", "6", "7", "8", "9"}

(***************************************************************************)
(* cveRegex = CVE\-[0-9]{4}\-[0-9]{4,} and regexp.FindAllString            *)
(***************************************************************************)
RECURSIVE DigitRun(_, _)
\* number of consecutive digits of s from position j on (the greedy {4,})
DigitRun(s, j) ==
    IF j <= Len(s) /\ s[j] \in Digit THEN 1 + DigitRun(s, j + 1) ELSE 0

\* length of the match of cveRegex that starts at position i of s, 0 if none
cveRegex(s, i) ==
    IF /\ i + 12 <= Len(s)
       /\ s[i] = "C" /\ s[i + 1] = "V" /\ s[i + 2] = "E" /\ s[i + 3] = "-"
       /\ \A k \in 4..7 : s[i + k] \in Digit
       /\ s[i + 8] = "-"
       /\ DigitRun(s, i + 9) >= 4
    THEN 9 + DigitRun(s, i + 9)
    ELSE 0

RECURSIVE FindAllFrom(_, _)
\* leftmost, non-overlapping matches of cveRegex in s from position i on
FindAllFrom(s, i) ==
    IF i > Len(s) THEN <<>>
    ELSE LET n == cveRegex(s, i)
         IN  IF n > 0
             THEN <<SubSeq(s, i, i + n - 1)>> \o FindAllFrom(s, i + n)
             ELSE FindAllFrom(s, i + 1)

FindAllString(s) == FindAllFrom(s, 1)

Range(f) == {f[i] : i \in DOMAIN f}

\* the orders in which `for cveID := range uniqueCVEs` can visit a map's keys
MapOrders(S) ==
    {f \in [1..Cardinality(S) -> S] : \A i, j \in DOMAIN f : f[i] = f[j] => i = j}

\* parseReleaseNotes without the uniqueCVEs map
parseReleaseNotes_NoDedup(notes) == {FindAllString(notes)}

\* the slices parseReleaseNotes can return for notes
parseReleaseNotes(notes) ==
    LET found == FindAllString(notes)
    IN  IF Len(found) = 0 THEN {found} ELSE MapOrders(Range(found))

(***************************************************************************)
(* Values: errors, JSON, cve, coreOSRelease                                *)
(***************************************************************************)
IOError == "open: no such file or directory"
NotFound == "key not found in file"
TransportError == "giving up after retries"
DecodeError == "invalid character looking for beginning of value"
ReleaseNotFound == "Release not found"
NoCoreOSVersion == "No CoreOS version on the page"
BadStatus == "Got 404 requesting versionUri"
NoCVSS == "No CVSS found!"
CannotParseCVSS == "Cannot parse CVSS"
MalformedCatalogEntry == "MalformedCatalogEntry"
Running == "running"

JChars(cs) == [t |-> "string", chars |-> cs]
JStr(s) == [t |-> "string", s |-> s]
JNum(n) == [t |-> "number", n |-> n]
JObj(fields) == [t |-> "object", fields |-> fields]
NotJSON == [t |-> "notjson"]

\* the zero value of coreOSRelease
ZeroRelease ==
    [SecurityFixes |-> <<>>, Version |-> "", ReleaseNotes |-> <<>>,
     MaxCVSS |-> <<>>, ReleasedOn |-> <<>>]

\* strconv.ParseFloat on the score texts the scoring endpoint serves here,
\* in tenths; <<>> is a parse error
ParseFloat(s) ==
    CASE s = "0.0" -> <<0>>
      [] s = "5.4" -> <<54>>
      [] s = "7.5" -> <<75>>
      [] s = "9.8" -> <<98>>
      [] s = "10.0" -> <<100>>
      [] OTHER -> <<>>

\* time.Parse("2006-01-02 15:04:05 -0700", s) on the date texts the catalog
\* serves here; <<>> is a parse error
ParseTime(s) ==
    CASE s = "2021-01-01 00:00:00 +0000" -> <<[year |-> 2021, month |-> 1, day |-> 1]>>
      [] s = "2021-02-03 04:05:06 +0000" -> <<[year |-> 2021, month |-> 2, day |-> 3]>>
      [] OTHER -> <<>>

\* a maximum that keeps the first score it is given
Max_First(a, b) == IF a = MaxCVSSSeed THEN b ELSE a

\* maxCVSS = fix.CVSS in place of math.Max
Max_Last(a, b) == b

Max(a, b) == IF a >= b THEN a ELSE b

(***************************************************************************)
(* Config Value Reader (valueFromFile) and parseCoreOSVersion.  A line is  *)
(* <<prefix, rest>>: the text prefix \o rest.                              *)
(***************************************************************************)
RECURSIVE FirstWithPrefix(_, _, _)
FirstWithPrefix(lines, prefix, i) ==
    IF i > Len(lines) THEN 0
    ELSE IF lines[i][1] = prefix THEN i
    ELSE FirstWithPrefix(lines, prefix, i + 1)

valueFromFile(key, file) ==
    IF ~file.readable THEN [err |-> IOError, val |-> ""]
    ELSE LET i == FirstWithPrefix(file.lines, key, 1)
         IN  IF i = 0 THEN [err |-> NotFound, val |-> ""]
             ELSE [err |-> Nil, val |-> file.lines[i][2]]

parseCoreOSVersion(body) ==
    LET i == FirstWithPrefix(body, "COREOS_VERSION=", 1)
    IN  IF i = 0 THEN [err |-> NoCoreOSVersion, val |-> ""]
        ELSE [err |-> Nil, val |-> body[i][2]]

(***************************************************************************)
(* The environment: the two files on the host and the three endpoints.     *)
(***************************************************************************)
CVE1 == <<"C", "V", "E", "-", "2", "0", "2", "1", "-", "0", "0", "0", "1">>
CVE2 == <<"C", "V", "E", "-", "2", "0", "2", "1", "-", "0", "0", "0", "2">>
CVE10 == CVE1 \o <<"0">>

\* "Fixes CVE-2021-0001"
NotesOne == <<"F", "i", "x", "e", "s", " ">> \o CVE1
\* "CVE-2021-0001,CVE-2021-0002 CVE-2021-0001": CVE-2021-0001 occurs twice
NotesDup == CVE1 \o <<",">> \o CVE2 \o <<" ">> \o CVE1
\* "CVE-2021-001 cve-2021-0001": too few digits, wrong case: no identifier
NotesNone == SubSeq(CVE1, 1, 12) \o <<" ", "c", "v", "e">> \o SubSeq(CVE1, 4, 13)
\* "CVE-2021-00010CVE-2021-0001 CVE-2021-00010": a five-digit identifier, twice
NotesLong == CVE10 \o CVE1 \o <<" ">> \o CVE10

GoodDate == "2021-01-01 00:00:00 +0000"

EntryOne == JObj([release_notes |-> JChars(NotesOne), release_date |-> JStr(GoodDate)])
EntryDup == JObj([release_notes |-> JChars(NotesDup)])
EntryNone == JObj([release_notes |-> JChars(NotesNone), release_date |-> JStr("01/01/2021")])
EntryLong == JObj([release_notes |-> JChars(NotesLong), release_date |-> JStr(GoodDate)])
EntryNoNotes == JObj([release_date |-> JStr(GoodDate)])
EntryNumNotes == JObj([release_notes |-> JNum(7)])
EntryNumDate == JObj([release_notes |-> JChars(NotesOne), release_date |-> JNum(1609459200)])

File(lines) == [readable |-> TRUE, lines |-> lines]
Unreadable == [readable |-> FALSE, lines |-> <<>>]
Page(status, body) == [status |-> status, body |-> body]

Installed == "1234.5.0"
Latest == "1235.0.0"

ReleaseConf == File(<<<<"COREOS_RELEASE_BOARD=", "amd64-usr">>,
                      <<"COREOS_RELEASE_VERSION=", Installed>>>>)
VersionPage == Page(200, <<<<"COREOS_BUILD=", "1235">>, <<"COREOS_VERSION=", Latest>>>>)
Pages(p) == [c \in {"stable", "beta", "alpha"} |-> p]
Scores(a, b, c) == (CVE1 :> a) @@ (CVE2 :> b) @@ (CVE10 :> c)
Cvss(s) == JObj([id |-> JStr("CVE"), cvss |-> JStr(s)])

\* the end-to-end scenario of the specification, with a latest release
\* whose notes name an identifier twice
WorldBeta ==
    [updateConf |-> File(<<<<"GROUP=", "beta">>>>),
     releaseConf |-> ReleaseConf,
     versionPage |-> Pages(VersionPage),
     releases |-> JObj((Installed :> EntryOne) @@ (Latest :> EntryDup)),
     cves |-> Scores(Cvss("5.4"), Cvss("9.8"), Cvss("7.5"))]

\* CoreUpdate group; scores the other way round, one of them missing
WorldCoreUpdate ==
    [updateConf |-> File(<<<<"SERVER=", "https://update">>, <<"GROUP=", "coreUpdateChan1">>>>),
     releaseConf |-> ReleaseConf,
     versionPage |-> Pages(VersionPage),
     releases |-> JObj((Installed :> EntryDup) @@ (Latest :> EntryNone)),
     cves |-> Scores(Cvss("9.8"), JObj([id |-> JStr("CVE")]), Cvss("0.0"))]

\* scoring answers that are no usable score
WorldBadScores ==
    [updateConf |-> File(<<<<"GROUP=", "alpha">>, <<"GROUP=", "beta">>>>),
     releaseConf |-> ReleaseConf,
     versionPage |-> Pages(VersionPage),
     releases |-> JObj((Installed :> EntryLong) @@ (Latest :> EntryOne)),
     cves |-> Scores(JObj([cvss |-> JNum(75)]), Cvss("0.0"), Cvss("high"))]

\* the installed version is not in the catalog
WorldNotInCatalog ==
    [WorldBeta EXCEPT !.updateConf = File(<<<<"GROUP=", "">>>>),
                      !.releases = JObj((Latest :> EntryOne) @@ ("1233.0.0" :> EntryDup)),
                      !.cves = Scores(Cvss("10.0"), NotJSON, NotJSON)]

\* the catalog maps the installed version to something that is no object
WorldNotAnObject ==
    [WorldBeta EXCEPT !.updateConf = File(<<<<"GROUP=", "stable">>>>),
                      !.releases = JObj((Installed :> JStr("withdrawn")) @@ (Latest :> EntryOne))]

\* catalog entries that break the contract of the catalog endpoint
WorldNoNotes ==
    [WorldBeta EXCEPT !.releases = JObj((Installed :> EntryNoNotes) @@ (Latest :> EntryOne))]
WorldNumNotes ==
    [WorldBeta EXCEPT !.releases = JObj((Installed :> EntryNone) @@ (Latest :> EntryNumNotes))]
WorldNumDate ==
    [WorldBeta EXCEPT !.releases = JObj((Installed :> EntryNumDate) @@ (Latest :> EntryOne))]

\* the catalog endpoint serves something that is no JSON object
WorldNoCatalog == [WorldBeta EXCEPT !.releases = NotJSON]

\* files that cannot be read or lack the key
WorldNoUpdateConf == [WorldBeta EXCEPT !.updateConf = Unreadable]
WorldNoGroup == [WorldBeta EXCEPT !.updateConf = File(<<<<"SERVER=", "https://update">>>>)]
WorldNoReleaseConf == [WorldBeta EXCEPT !.releaseConf = Unreadable]
WorldNoReleaseKey == [WorldBeta EXCEPT !.releaseConf = File(<<<<"COREOS_RELEASE_BOARD=", "amd64-usr">>>>)]

\* channel-version endpoint: not 200, or no COREOS_VERSION line
WorldNoPage == [WorldBeta EXCEPT !.versionPage = Pages(Page(404, <<>>))]
WorldNoVersionLine ==
    [WorldBeta EXCEPT !.versionPage = Pages(Page(200, <<<<"COREOS_BUILD=", "1235">>>>))]

Worlds ==
    <<WorldBeta, WorldCoreUpdate, WorldBadScores, WorldNotInCatalog, WorldNotAnObject,
      WorldNoNotes, WorldNumNotes, WorldNumDate, WorldNoCatalog, WorldNoUpdateConf,
      WorldNoGroup, WorldNoReleaseConf, WorldNoReleaseKey, WorldNoPage, WorldNoVersionLine>>

(***************************************************************************)
(* newReleaseRepository and `go startPoll(...)`                            *)
(***************************************************************************)
getLocals == <<caller, release, releaseNotes, releasedOn, cveIDs, securityFixes, maxCVSS>>
repo == <<channel, installedVersion, latestVersion, err>>
lock == <<writer, readers>>
\* the files on the host and what the remote endpoints serve
world == Worlds[scene]

env == <<scene, changes>>
timer == <<ticker, pollC, fired>>

ResetGet ==
    /\ caller' = ""
    /\ release' = ""
    /\ releaseNotes' = <<>>
    /\ releasedOn' = <<>>
    /\ cveIDs' = <<>>
    /\ securityFixes' = <<>>
    /\ maxCVSS' = MaxCVSSSeed

Init ==
    /\ scene \in DOMAIN Worlds
    /\ pc = "startPoll"
    /\ channel = ""
    /\ installedVersion = ZeroRelease
    /\ latestVersion = ZeroRelease
    /\ err = Nil
    /\ writer = FALSE
    /\ readers = {}
    /\ cycleLog = <<>>
    /\ cycleErr = Nil
    /\ lastGroup = ""
    /\ uri = ""
    /\ caller = ""
    /\ release = ""
    /\ releaseNotes = <<>>
    /\ releasedOn = <<>>
    /\ cveIDs = <<>>
    /\ securityFixes = <<>>
    /\ maxCVSS = MaxCVSSSeed
    /\ enriched = ZeroRelease
    /\ fetches = 0
    /\ changes = 0
    /\ ticker = FALSE
    /\ pollC = 0
    /\ fired = 0
    /\ attempt = 0

(***************************************************************************)
(* sync.RWMutex.  A pending Lock keeps new readers out.                    *)
(***************************************************************************)
LockPcs ==
    {"GetChannel_Lock", "GetInstalledVersion_Lock", "GetLatestVersion_Lock",
     "UpdateError_Lock"}

WritePcs ==
    {"GetChannel_Write", "GetInstalledVersion_Write", "GetLatestVersion_Write",
     "UpdateError_Write"}

\* the refresh is waiting for a file or for an HTTP exchange
IOPcs == {"GetChannel", "GetInstalledVersion", "GetLatestVersion_Do", "Get", "Get_Loop"}

WriteOf(p) ==
    CASE p = "GetChannel_Lock" -> "GetChannel_Write"
      [] p = "GetInstalledVersion_Lock" -> "GetInstalledVersion_Write"
      [] p = "GetLatestVersion_Lock" -> "GetLatestVersion_Write"
      [] p = "UpdateError_Lock" -> "UpdateError_Write"

\* a Lock that does not wait for the readers to leave
CanLock_NoWait == TRUE

\* r.Lock() returns once no reader holds the lock
CanLock == readers = {}

Lock ==
    /\ pc \in LockPcs
    /\ CanLock
    /\ ~writer
    /\ writer' = TRUE
    /\ pc' = WriteOf(pc)
    /\ UNCHANGED <<repo, readers, env, timer, attempt, cycleLog, cycleErr, lastGroup,
                   uri, getLocals, enriched, fetches>>

(***************************************************************************)
(* pollCoreOSReleases and startPoll                                        *)
(***************************************************************************)
Called(op) == [op |-> op, err |-> Running]

Returned(log, e) == [log EXCEPT ![Len(log)].err = e]

\* pollCoreOSReleases without the `return err` after a failed GetChannel
PollNext_NoReturn(op, e) ==
    IF e # Nil /\ op # "GetChannel"
    THEN /\ pc' = "UpdateError_Lock"
         /\ cycleErr' = e
         /\ cycleLog' = Returned(cycleLog, e)
    ELSE CASE op = "GetChannel" ->
                /\ pc' = "GetInstalledVersion"
                /\ cycleLog' = Append(Returned(cycleLog, e), Called("GetInstalledVersion"))
                /\ UNCHANGED cycleErr
           [] op = "GetInstalledVersion" ->
                /\ pc' = "GetLatestVersion"
                /\ cycleLog' = Append(Returned(cycleLog, e), Called("GetLatestVersion"))
                /\ UNCHANGED cycleErr
           [] op = "GetLatestVersion" ->
                /\ pc' = "UpdateError_Lock"
                /\ cycleErr' = Nil
                /\ cycleLog' = Returned(cycleLog, e)

\* pollCoreOSReleases after step op returned e
PollNext(op, e) ==
    IF e # Nil
    THEN /\ pc' = "UpdateError_Lock"
         /\ cycleErr' = e
         /\ cycleLog' = Returned(cycleLog, e)
    ELSE CASE op = "GetChannel" ->
                /\ pc' = "GetInstalledVersion"
                /\ cycleLog' = Append(Returned(cycleLog, e), Called("GetInstalledVersion"))
                /\ UNCHANGED cycleErr
           [] op = "GetInstalledVersion" ->
                /\ pc' = "GetLatestVersion"
                /\ cycleLog' = Append(Returned(cycleLog, e), Called("GetLatestVersion"))
                /\ UNCHANGED cycleErr
           [] op = "GetLatestVersion" ->
                /\ pc' = "UpdateError_Lock"
                /\ cycleErr' = Nil
                /\ cycleLog' = Returned(cycleLog, e)

\* err := pollCoreOSReleases(repo): the call of GetChannel
BeginCycle ==
    /\ pc' = "GetChannel"
    /\ cycleLog' = <<Called("GetChannel")>>
    /\ fetches' = 0
    /\ UNCHANGED <<repo, lock, env, attempt, cycleErr, lastGroup, uri, getLocals,
                   enriched>>

StartPoll ==
    /\ pc = "startPoll"
    /\ BeginCycle
    /\ UNCHANGED timer

\* a loop that starts the next cycle without waiting on poll.C
Tick_NoWait ==
    /\ pc = "WaitTick"
    /\ pollC' = 0
    /\ fired' = 0
    /\ BeginCycle
    /\ UNCHANGED ticker

\* <-poll.C, then the next cycle
Tick ==
    /\ pc = "WaitTick"
    /\ pollC = 1
    /\ pollC' = 0
    /\ fired' = 0
    /\ BeginCycle
    /\ UNCHANGED ticker

\* UpdateError that records only a non-nil error
UpdateError_KeepOld ==
    /\ pc = "UpdateError_Write"
    /\ err' = IF cycleErr = Nil THEN err ELSE cycleErr
    /\ writer' = FALSE
    /\ pc' = IF ticker THEN "WaitTick" ELSE "NewTicker"
    /\ UNCHANGED <<channel, installedVersion, latestVersion, readers, env, timer,
                   attempt, cycleLog, cycleErr, lastGroup, uri, getLocals, enriched,
                   fetches>>

\* a poll loop that ends when a cycle has failed
UpdateError_StopOnError ==
    /\ pc = "UpdateError_Write"
    /\ err' = cycleErr
    /\ writer' = FALSE
    /\ pc' = IF cycleErr # Nil THEN "stopped" ELSE IF ticker THEN "WaitTick" ELSE "NewTicker"
    /\ UNCHANGED <<channel, installedVersion, latestVersion, readers, env, timer,
                   attempt, cycleLog, cycleErr, lastGroup, uri, getLocals, enriched,
                   fetches>>

\* r.err = err, under the lock taken at UpdateError_Lock
UpdateError ==
    /\ pc = "UpdateError_Write"
    /\ err' = cycleErr
    /\ writer' = FALSE
    /\ pc' = IF ticker THEN "WaitTick" ELSE "NewTicker"
    /\ UNCHANGED <<channel, installedVersion, latestVersion, readers, env, timer,
                   attempt, cycleLog, cycleErr, lastGroup, uri, getLocals, enriched,
                   fetches>>

\* poll := time.NewTicker(period), after the first cycle
NewTicker ==
    /\ pc = "NewTicker"
    /\ ticker' = TRUE
    /\ pc' = "WaitTick"
    /\ UNCHANGED <<repo, lock, env, pollC, fired, attempt, cycleLog, cycleErr, lastGroup,
                   uri, getLocals, enriched, fetches>>

\* one period of the interval elapses; the ticker, once created, fires: the
\* tick goes into poll.C, or is dropped when one is already waiting there
PeriodElapses ==
    /\ pollC = 0 \/ fired < MaxFired
    /\ fired' = IF fired < MaxFired THEN fired + 1 ELSE fired
    /\ pollC' = IF ticker THEN 1 ELSE 0
    /\ UNCHANGED <<pc, repo, lock, env, ticker, attempt, cycleLog, cycleErr, lastGroup,
                   uri, getLocals, enriched, fetches>>

\* the ticker fires while startPoll waits on an empty poll.C, as it does when
\* the cycle is shorter than the interval
TickFires_Idle ==
    /\ pc = "WaitTick"
    /\ pollC = 0
    /\ PeriodElapses

(***************************************************************************)
(* GetChannel                                                              *)
(***************************************************************************)
GetChannel_ReadConf ==
    /\ pc = "GetChannel"
    /\ LET r == valueFromFile("GROUP=", world.updateConf)
       IN  IF r.err # Nil
           THEN PollNext("GetChannel", r.err) /\ UNCHANGED lastGroup
           ELSE /\ lastGroup' = r.val
                /\ pc' = "GetChannel_Lock"
                /\ UNCHANGED <<cycleLog, cycleErr, env>>
    /\ UNCHANGED <<repo, lock, env, timer, attempt, uri, getLocals, enriched, fetches>>

\* a default that is applied to the empty value only
Normalize_OnlyEmpty(c) == IF c = "" THEN "stable" ELSE c

\* lines 86-90
Normalize(c) == IF c = "beta" \/ c = "alpha" THEN c ELSE "stable"

\* GetChannel that keeps the lock for the rest of the cycle
GetChannel_Write_NoUnlock ==
    /\ pc = "GetChannel_Write"
    /\ channel' = Normalize(lastGroup)
    /\ PollNext("GetChannel", Nil)
    /\ UNCHANGED <<installedVersion, latestVersion, err, lock, env, timer, attempt,
                   lastGroup, uri, getLocals, enriched, fetches>>

\* lines 82-92
GetChannel_Write ==
    /\ pc = "GetChannel_Write"
    /\ channel' = Normalize(lastGroup)
    /\ writer' = FALSE
    /\ PollNext("GetChannel", Nil)
    /\ UNCHANGED <<installedVersion, latestVersion, err, readers, env, timer, attempt,
                   lastGroup, uri, getLocals, enriched, fetches>>

(***************************************************************************)
(* Get and retrieveCVE                                                     *)
(***************************************************************************)
\* Get from the decoded catalog to the call of parseReleaseNotes (lines 166-180)
Lookup(body, rel) ==
    IF body.t # "object" THEN [kind |-> "err", err |-> DecodeError]
    ELSE LET releases == body.fields
         IN  IF rel \notin DOMAIN releases \/ releases[rel].t # "object"
             THEN [kind |-> "err", err |-> ReleaseNotFound]
             ELSE LET releaseData == releases[rel].fields
                  IN  IF \/ "release_notes" \notin DOMAIN releaseData
                         \/ releaseData.release_notes.t # "string"
                      THEN [kind |-> "panic", at |-> "release_notes"]
                      ELSE IF "release_date" \notin DOMAIN releaseData
                      THEN [kind |-> "ok", notes |-> releaseData.release_notes.chars,
                            releasedOn |-> <<>>]
                      ELSE IF releaseData.release_date.t # "string"
                      THEN [kind |-> "panic", at |-> "release_date"]
                      ELSE [kind |-> "ok", notes |-> releaseData.release_notes.chars,
                            releasedOn |-> ParseTime(releaseData.release_date.s)]

\* Get returns (nil, e) to the refresh that called it, which returns e
Get_ReturnErr(e) ==
    /\ PollNext(caller, e)
    /\ ResetGet

\* GetJSON(r.client, releasesUri): the transport gives up
Get_FetchFails ==
    /\ pc = "Get"
    /\ attempt' = 0
    /\ fetches' = fetches + 1
    /\ Get_ReturnErr(TransportError)
    /\ UNCHANGED <<repo, lock, env, timer, lastGroup, uri, enriched>>

\* Get that reuses the catalog fetched earlier in the cycle
Get_Fetched_Cached ==
    /\ pc = "Get"
    /\ attempt' = 0
    /\ fetches' = IF caller = "GetLatestVersion" THEN fetches ELSE fetches + 1
    /\ LET l == Lookup(world.releases, release)
       IN  CASE l.kind = "err" -> Get_ReturnErr(l.err)
             [] l.kind = "panic" ->
                    /\ pc' = "panic"
                    /\ UNCHANGED <<cycleLog, cycleErr, getLocals, env>>
             [] l.kind = "ok" ->
                    /\ \E ids \in parseReleaseNotes(l.notes) : cveIDs' = ids
                    /\ releaseNotes' = l.notes
                    /\ releasedOn' = l.releasedOn
                    /\ pc' = "Get_Loop"
                    /\ UNCHANGED <<cycleLog, cycleErr, caller, release, securityFixes,
                                   maxCVSS, env>>
    /\ UNCHANGED <<repo, lock, env, timer, lastGroup, uri, enriched>>

\* GetJSON(r.client, releasesUri): a response arrives
Get_Fetched ==
    /\ pc = "Get"
    /\ attempt' = 0
    /\ fetches' = fetches + 1
    /\ LET l == Lookup(world.releases, release)
       IN  CASE l.kind = "err" -> Get_ReturnErr(l.err)
             [] l.kind = "panic" ->
                    /\ pc' = "panic"
                    /\ UNCHANGED <<cycleLog, cycleErr, getLocals, env>>
             [] l.kind = "ok" ->
                    /\ \E ids \in parseReleaseNotes(l.notes) : cveIDs' = ids
                    /\ releaseNotes' = l.notes
                    /\ releasedOn' = l.releasedOn
                    /\ pc' = "Get_Loop"
                    /\ UNCHANGED <<cycleLog, cycleErr, caller, release, securityFixes,
                                   maxCVSS, env>>
    /\ UNCHANGED <<repo, lock, env, timer, lastGroup, uri, enriched>>

\* retrieveCVE from the decoded answer of the scoring endpoint (lines 219-231)
Score(id, resp) ==
    IF resp.t # "object" THEN [ID |-> id, CVSS |-> 0, err |-> DecodeError]
    ELSE LET cveResult == resp.fields
         IN  IF "cvss" \notin DOMAIN cveResult \/ cveResult.cvss.t # "string"
             THEN [ID |-> id, CVSS |-> 0, err |-> NoCVSS]
             ELSE LET cvss == ParseFloat(cveResult.cvss.s)
                  IN  IF cvss = <<>>
                      THEN [ID |-> id, CVSS |-> 0, err |-> CannotParseCVSS]
                      ELSE [ID |-> id, CVSS |-> cvss[1], err |-> Nil]

\* what retrieveCVE(id) can return: the transport gives up, or a response arrives
retrieveCVE(id) ==
    {[ID |-> id, CVSS |-> 0, err |-> TransportError], Score(id, world.cves[id])}

\* an iteration that returns the lookup's error from Get
Get_retrieveCVE_Abort ==
    /\ pc = "Get_Loop"
    /\ attempt' = 0
    /\ Len(securityFixes) < Len(cveIDs)
    /\ \E fix \in retrieveCVE(cveIDs[Len(securityFixes) + 1]) :
          IF fix.err # Nil
          THEN Get_ReturnErr(fix.err)
          ELSE /\ securityFixes' = Append(securityFixes, fix)
               /\ maxCVSS' = Max(maxCVSS, fix.CVSS)
               /\ UNCHANGED <<pc, cycleLog, cycleErr, caller, release, releaseNotes,
                              releasedOn, cveIDs>>
    /\ UNCHANGED <<repo, lock, env, timer, lastGroup, uri, enriched, fetches>>

\* one iteration of `for _, cveID := range cveIDs`
Get_retrieveCVE ==
    /\ pc = "Get_Loop"
    /\ attempt' = 0
    /\ Len(securityFixes) < Len(cveIDs)
    /\ \E fix \in retrieveCVE(cveIDs[Len(securityFixes) + 1]) :
          /\ securityFixes' = Append(securityFixes, fix)
          /\ maxCVSS' = Max(maxCVSS, fix.CVSS)
    /\ UNCHANGED <<pc, repo, lock, env, timer, cycleLog, cycleErr, lastGroup,
                   uri, caller, release, releaseNotes, releasedOn, cveIDs, enriched,
                   fetches>>

\* Get that attaches MaxCVSS only to a release with vulnerabilities
Get_Return_OmitMax ==
    /\ pc = "Get_Loop"
    /\ Len(securityFixes) = Len(cveIDs)
    /\ enriched' = [SecurityFixes |-> securityFixes, Version |-> release,
                    ReleaseNotes |-> releaseNotes,
                    MaxCVSS |-> IF securityFixes = <<>> THEN <<>> ELSE <<maxCVSS>>,
                    ReleasedOn |-> releasedOn]
    /\ pc' = IF caller = "GetInstalledVersion" THEN "GetInstalledVersion_Lock"
             ELSE "GetLatestVersion_Lock"
    /\ ResetGet
    /\ UNCHANGED <<repo, lock, env, timer, attempt, cycleLog, cycleErr, lastGroup, uri,
                   fetches>>

\* line 192, and the return into the refresh that called Get
Get_Return ==
    /\ pc = "Get_Loop"
    /\ Len(securityFixes) = Len(cveIDs)
    /\ enriched' = [SecurityFixes |-> securityFixes, Version |-> release,
                    ReleaseNotes |-> releaseNotes, MaxCVSS |-> <<maxCVSS>>,
                    ReleasedOn |-> releasedOn]
    /\ pc' = IF caller = "GetInstalledVersion" THEN "GetInstalledVersion_Lock"
             ELSE "GetLatestVersion_Lock"
    /\ ResetGet
    /\ UNCHANGED <<repo, lock, env, timer, attempt, cycleLog, cycleErr, lastGroup, uri,
                   fetches>>

(***************************************************************************)
(* GetInstalledVersion                                                     *)
(***************************************************************************)
GetInstalledVersion_ReadConf ==
    /\ pc = "GetInstalledVersion"
    /\ LET r == valueFromFile("COREOS_RELEASE_VERSION=", world.releaseConf)
       IN  IF r.err # Nil
           THEN PollNext("GetInstalledVersion", r.err) /\ UNCHANGED <<release, caller, env>>
           ELSE /\ release' = r.val
                /\ caller' = "GetInstalledVersion"
                /\ pc' = "Get"
                /\ UNCHANGED <<cycleLog, cycleErr, env>>
    /\ UNCHANGED <<repo, lock, env, timer, attempt, lastGroup, uri, releaseNotes,
                   releasedOn, cveIDs, securityFixes, maxCVSS, enriched, fetches>>

\* GetInstalledVersion without the deferred Unlock
GetInstalledVersion_Write_NoUnlock ==
    /\ pc = "GetInstalledVersion_Write"
    /\ installedVersion' = enriched
    /\ enriched' = ZeroRelease
    /\ PollNext("GetInstalledVersion", Nil)
    /\ UNCHANGED <<channel, latestVersion, err, lock, env, timer, attempt, lastGroup,
                   uri, getLocals, fetches>>

GetInstalledVersion_Write ==
    /\ pc = "GetInstalledVersion_Write"
    /\ installedVersion' = enriched
    /\ writer' = FALSE
    /\ enriched' = ZeroRelease
    /\ PollNext("GetInstalledVersion", Nil)
    /\ UNCHANGED <<channel, latestVersion, err, readers, env, timer, attempt, lastGroup,
                   uri, getLocals, fetches>>

(***************************************************************************)
(* GetLatestVersion                                                        *)
(***************************************************************************)
\* GetLatestVersion with r.RLock() and a deferred r.RUnlock() around the read
GetLatestVersion_Uri_RLock ==
    /\ pc = "GetLatestVersion"
    /\ ~writer
    /\ readers' = readers \cup {Poller}
    /\ uri' = channel
    /\ pc' = "GetLatestVersion_Do"
    /\ UNCHANGED <<repo, writer, env, timer, attempt, cycleLog, cycleErr, lastGroup,
                   getLocals, enriched, fetches>>

\* uri := fmt.Sprintf(versionUri, r.channel)
GetLatestVersion_Uri ==
    /\ pc = "GetLatestVersion"
    /\ uri' = channel
    /\ pc' = "GetLatestVersion_Do"
    /\ UNCHANGED <<repo, lock, env, timer, attempt, cycleLog, cycleErr, lastGroup,
                   getLocals, enriched, fetches>>

\* what the channel-version endpoint answers for the channel in the uri
PageFor(c) ==
    IF c \in DOMAIN world.versionPage THEN world.versionPage[c] ELSE Page(404, <<>>)

\* GetLatestVersion that clears the stored release when the request fails
GetLatestVersion_DoFails_Clear ==
    /\ pc = "GetLatestVersion_Do"
    /\ attempt' = 0
    /\ latestVersion' = ZeroRelease
    /\ PollNext("GetLatestVersion", TransportError)
    /\ UNCHANGED <<channel, installedVersion, err, lock, env, timer, lastGroup,
                   uri, getLocals, enriched, fetches>>

\* r.client.Do(req) or ioutil.ReadAll(resp.Body) fails
GetLatestVersion_DoFails ==
    /\ pc = "GetLatestVersion_Do"
    /\ attempt' = 0
    /\ PollNext("GetLatestVersion", TransportError)
    /\ UNCHANGED <<repo, lock, env, timer, lastGroup, uri, getLocals, enriched,
                   fetches>>

\* a response arrives: lines 123-137
GetLatestVersion_Done ==
    /\ pc = "GetLatestVersion_Do"
    /\ attempt' = 0
    /\ LET resp == PageFor(uri)
           r == parseCoreOSVersion(resp.body)
       IN  IF resp.status # 200
           THEN PollNext("GetLatestVersion", BadStatus) /\ UNCHANGED <<release, caller, env>>
           ELSE IF r.err # Nil
           THEN PollNext("GetLatestVersion", r.err) /\ UNCHANGED <<release, caller, env>>
           ELSE /\ release' = r.val
                /\ caller' = "GetLatestVersion"
                /\ pc' = "Get"
                /\ UNCHANGED <<cycleLog, cycleErr, env>>
    /\ UNCHANGED <<repo, lock, env, timer, lastGroup, uri, releaseNotes,
                   releasedOn, cveIDs, securityFixes, maxCVSS, enriched, fetches>>

GetLatestVersion_Write ==
    /\ pc = "GetLatestVersion_Write"
    /\ latestVersion' = enriched
    /\ writer' = FALSE
    /\ enriched' = ZeroRelease
    /\ PollNext("GetLatestVersion", Nil)
    /\ UNCHANGED <<channel, installedVersion, err, readers, env, timer, attempt,
                   lastGroup, uri, getLocals, fetches>>

(***************************************************************************)
(* Readers of the repository: RLock for the whole read of the snapshot     *)
(***************************************************************************)
RLock(r) ==
    /\ pc # "panic"
    /\ r \notin readers
    /\ ~writer
    /\ pc \notin LockPcs
    /\ readers' = readers \cup {r}
    /\ UNCHANGED <<pc, repo, writer, env, timer, attempt, cycleLog, cycleErr, lastGroup,
                   uri, getLocals, enriched, fetches>>

RUnlock(r) ==
    /\ pc # "panic"
    /\ r \in readers
    /\ readers' = readers \ {r}
    /\ UNCHANGED <<pc, repo, writer, env, timer, attempt, cycleLog, cycleErr, lastGroup,
                   uri, getLocals, enriched, fetches>>

\* between two cycles the files are edited or the endpoints serve new content
WorldChanges ==
    /\ pc = "WaitTick"
    /\ changes < MaxChanges
    /\ changes' = changes + 1
    /\ \E w \in DOMAIN Worlds \ {scene} : scene' = w
    /\ UNCHANGED <<pc, repo, lock, cycleLog, cycleErr, lastGroup, uri, getLocals,
                   enriched, fetches, timer, attempt>>

Next ==
    \/ WorldChanges
    \/ StartPoll
    \/ NewTicker
    \/ TickFires_Idle
    \/ Tick
    \/ Lock
    \/ UpdateError
    \/ GetChannel_ReadConf
    \/ GetChannel_Write
    \/ GetInstalledVersion_ReadConf
    \/ GetInstalledVersion_Write
    \/ GetLatestVersion_Uri
    \/ GetLatestVersion_DoFails
    \/ GetLatestVersion_Done
    \/ GetLatestVersion_Write
    \/ Get_FetchFails
    \/ Get_Fetched
    \/ Get_retrieveCVE
    \/ Get_Return
    \/ \E r \in Readers : RLock(r)
    \/ \E r \in Readers : RUnlock(r)

Spec == Init /\ [][Next]_vars

\* the poll loop with periods of the interval that may elapse at any time,
\* also while a cycle runs (a cycle longer than the interval); the files and
\* endpoints stay as they are
NextTicker ==
    \/ StartPoll
    \/ NewTicker
    \/ PeriodElapses
    \/ Tick
    \/ Lock
    \/ UpdateError
    \/ GetChannel_ReadConf
    \/ GetChannel_Write
    \/ GetInstalledVersion_ReadConf
    \/ GetInstalledVersion_Write
    \/ GetLatestVersion_Uri
    \/ GetLatestVersion_DoFails
    \/ GetLatestVersion_Done
    \/ GetLatestVersion_Write
    \/ Get_FetchFails
    \/ Get_Fetched
    \/ Get_retrieveCVE
    \/ Get_Return
    \/ \E r \in Readers : RLock(r)
    \/ \E r \in Readers : RUnlock(r)

SpecTicker == Init /\ [][NextTicker]_vars

\* what startPoll's goroutine can do next
PollStep ==
    \/ StartPoll
    \/ NewTicker
    \/ Tick
    \/ Lock
    \/ UpdateError
    \/ GetChannel_ReadConf
    \/ GetChannel_Write
    \/ GetInstalledVersion_ReadConf
    \/ GetInstalledVersion_Write
    \/ GetLatestVersion_Uri
    \/ GetLatestVersion_DoFails
    \/ GetLatestVersion_Done
    \/ GetLatestVersion_Write
    \/ Get_FetchFails
    \/ Get_Fetched
    \/ Get_retrieveCVE
    \/ Get_Return

\* the goroutine keeps running and every file read and request returns; the
\* periods of the interval keep elapsing; a reader ends its read
SpecFair ==
    /\ SpecTicker
    /\ WF_vars(PollStep)
    /\ WF_vars(PeriodElapses)
    /\ \A r \in Readers : WF_vars(RUnlock(r))

(***************************************************************************)
(* r.client.Do attempt by attempt.  Do makes a first attempt and up to      *)
(* RetryMax retries; it returns the first response that needs no retry, or  *)
(* an error once the last retry has failed.                                 *)
(***************************************************************************)
\* a request of the poll goroutine is inside r.client.Do
InDo ==
    \/ pc \in {"Get", "GetLatestVersion_Do"}
    \/ pc = "Get_Loop" /\ Len(securityFixes) < Len(cveIDs)

\* a client that retries once more than RetryMax allows
Do_AttemptFails_OneMore ==
    /\ InDo
    /\ attempt <= RetryMax + 1
    /\ attempt' = attempt + 1
    /\ UNCHANGED <<pc, repo, lock, env, timer, cycleLog, cycleErr, lastGroup, uri,
                   getLocals, enriched, fetches>>

\* an attempt fails in a way the client retries (transport error, 5xx)
Do_AttemptFails ==
    /\ InDo
    /\ attempt <= RetryMax
    /\ attempt' = attempt + 1
    /\ UNCHANGED <<pc, repo, lock, env, timer, cycleLog, cycleErr, lastGroup, uri,
                   getLocals, enriched, fetches>>

\* the first attempt and all RetryMax retries have failed
Exhausted == attempt = RetryMax + 1

Do_Get_GivesUp == Exhausted /\ Get_FetchFails

Do_Get_Answered == ~Exhausted /\ Get_Fetched

Do_retrieveCVE_GivesUp ==
    /\ Exhausted
    /\ Get_retrieveCVE
    /\ securityFixes'[Len(securityFixes')].err = TransportError

Do_retrieveCVE_Answered ==
    /\ ~Exhausted
    /\ Get_retrieveCVE
    /\ securityFixes'[Len(securityFixes')].err # TransportError

Do_GetLatestVersion_GivesUp == Exhausted /\ GetLatestVersion_DoFails

Do_GetLatestVersion_Answered == ~Exhausted /\ GetLatestVersion_Done

NextRetry ==
    \/ StartPoll
    \/ NewTicker
    \/ TickFires_Idle
    \/ Tick
    \/ Lock
    \/ UpdateError
    \/ GetChannel_ReadConf
    \/ GetChannel_Write
    \/ GetInstalledVersion_ReadConf
    \/ GetInstalledVersion_Write
    \/ GetLatestVersion_Uri
    \/ GetLatestVersion_Write
    \/ Get_Return
    \/ Do_AttemptFails
    \/ Do_Get_GivesUp
    \/ Do_Get_Answered
    \/ Do_retrieveCVE_GivesUp
    \/ Do_retrieveCVE_Answered
    \/ Do_GetLatestVersion_GivesUp
    \/ Do_GetLatestVersion_Answered
    \/ \E r \in Readers : RLock(r)
    \/ \E r \in Readers : RUnlock(r)

SpecRetry == Init /\ [][NextRetry]_vars

(***************************************************************************)
(* Properties                                                              *)
(***************************************************************************)
StepOrder == <<"GetChannel", "GetInstalledVersion", "GetLatestVersion">>

\* the refresh step whose code the poll goroutine is executing, "" between steps
StepAt ==
    CASE pc \in {"GetChannel", "GetChannel_Lock", "GetChannel_Write"} -> "GetChannel"
      [] pc \in {"GetInstalledVersion", "GetInstalledVersion_Lock",
                 "GetInstalledVersion_Write"} -> "GetInstalledVersion"
      [] pc \in {"GetLatestVersion", "GetLatestVersion_Do", "GetLatestVersion_Lock",
                 "GetLatestVersion_Write"} -> "GetLatestVersion"
      [] pc \in {"Get", "Get_Loop"} -> caller
      [] OTHER -> ""

LastStep == cycleLog[Len(cycleLog)]

AllSucceeded == Len(cycleLog) = 3 /\ \A i \in 1..3 : cycleLog[i].err = Nil

\* C1: in every poll cycle the steps are called in the order GetChannel,
\* GetInstalledVersion, GetLatestVersion; a step is called only when every
\* earlier step of the cycle returned nil, and after the first failing step the
\* cycle executes no further step.
C1_OrderAndShortCircuit ==
    /\ Len(cycleLog) <= 3
    /\ \A i \in DOMAIN cycleLog : cycleLog[i].op = StepOrder[i]
    /\ \A i \in DOMAIN cycleLog : i < Len(cycleLog) => cycleLog[i].err = Nil
    /\ StepAt # "" => (LastStep.op = StepAt /\ LastStep.err = Running)
    /\ (cycleLog # <<>> /\ LastStep.err # Running) =>
           pc \in {"UpdateError_Lock", "UpdateError_Write", "NewTicker", "WaitTick"}

\* a cycle that GetInstalledVersion aborted: GetLatestVersion was not called
C1_Witness ==
    /\ pc = "WaitTick"
    /\ Len(cycleLog) = 2
    /\ cycleLog[2].err \notin {Nil, Running}

\* C2: once startPoll has called UpdateError for a cycle, r.err is the error of
\* the first failing step of that cycle (the last step called), and it is nil
\* exactly when all three steps succeeded, whatever the earlier cycle left.
C2_LastErrorOfCycle ==
    pc \in {"NewTicker", "WaitTick"} =>
        /\ err = LastStep.err
        /\ err # Running
        /\ (err = Nil) <=> AllSucceeded
        /\ \A i \in DOMAIN cycleLog : cycleLog[i].err # Nil => (i = Len(cycleLog) /\ err = cycleLog[i].err)

\* the installed version is not in the catalog: the cycle stopped at
\* GetInstalledVersion and the last error is "Release not found"
C2_Witness ==
    /\ pc = "WaitTick"
    /\ Len(cycleLog) = 2
    /\ err = ReleaseNotFound
    /\ installedVersion = ZeroRelease
    /\ latestVersion = ZeroRelease

\* the identifiers that occur in notes
UniqueIDs(notes) == Range(FindAllString(notes))

IDs(fixes) == {fixes[i].ID : i \in DOMAIN fixes}

\* the poll goroutine holds a release that Get has just returned
HoldsEnriched ==
    pc \in {"GetInstalledVersion_Lock", "GetInstalledVersion_Write",
            "GetLatestVersion_Lock", "GetLatestVersion_Write"}

\* every release Get has returned and that is still held or stored
ReturnedByGet ==
    (IF HoldsEnriched THEN {enriched} ELSE {})
        \cup ({installedVersion, latestVersion} \ {ZeroRelease})

\* the answer of the scoring endpoint carries no score the code can use
Unusable(resp) ==
    \/ resp.t # "object"
    \/ "cvss" \notin DOMAIN resp.fields
    \/ resp.fields.cvss.t # "string"
    \/ resp.fields.cvss.s \notin {"0.0", "5.4", "7.5", "9.8", "10.0"}

C3_ReleaseShape ==
    /\ \A rel \in ReturnedByGet :
          /\ Len(rel.SecurityFixes) = Cardinality(UniqueIDs(rel.ReleaseNotes))
          /\ IDs(rel.SecurityFixes) = UniqueIDs(rel.ReleaseNotes)
          /\ \A i \in DOMAIN rel.SecurityFixes :
                rel.SecurityFixes[i].err # Nil => rel.SecurityFixes[i].CVSS = 0
    /\ HoldsEnriched =>
          \A i \in DOMAIN enriched.SecurityFixes :
             LET fix == enriched.SecurityFixes[i]
             IN  Unusable(world.cves[fix.ID]) => (fix.err # Nil /\ fix.CVSS = 0)

C3_GetGoesOn ==
    pc = "Get_Loop" =>
        pc' \in {"Get_Loop", "GetInstalledVersion_Lock", "GetLatestVersion_Lock"}

\* C3: once the catalog is fetched and holds the version with its release
\* notes, Get returns a release whichever scoring lookups fail: from the lookup
\* loop it can only go on or return a release; that release has exactly one
\* entry per distinct identifier, and a failed lookup's entry has CVSS 0 and a
\* non-nil err.
C3_LookupFailuresContained == []C3_ReleaseShape /\ [][C3_GetGoesOn]_vars

\* a release returned with one lookup failed and one succeeded
C3_Witness ==
    /\ pc = "GetInstalledVersion_Lock"
    /\ Len(enriched.SecurityFixes) = 2
    /\ enriched.SecurityFixes[1].err # Nil
    /\ enriched.SecurityFixes[2].err = Nil

\* C4: after a successful GetChannel the stored channel is "beta" for GROUP=beta,
\* "alpha" for GROUP=alpha and "stable" for every other value read.
C4_ChannelNormalized ==
    (cycleLog # <<>> /\ cycleLog[1].err = Nil) =>
        /\ lastGroup = "beta" => channel = "beta"
        /\ lastGroup = "alpha" => channel = "alpha"
        /\ lastGroup \notin {"beta", "alpha"} => channel = "stable"
        /\ lastGroup \in {"", "coreUpdateChan1", "stable"} => channel = "stable"

\* GROUP=coreUpdateChan1 was read and stored as "stable"
C4_Witness ==
    /\ cycleLog # <<>>
    /\ cycleLog[1].err = Nil
    /\ lastGroup = "coreUpdateChan1"
    /\ channel = "stable"

MaxOf(S) == CHOOSE m \in S : \A x \in S : x <= m

\* C5: every release returned by Get has MaxCVSS -1 when it has no
\* vulnerabilities and otherwise the largest CVSS among them, a failed lookup
\* counting 0 (scores in tenths).
C5_MaxCVSS ==
    \A rel \in ReturnedByGet :
        rel.MaxCVSS =
            IF rel.SecurityFixes = <<>> THEN <<-10>>
            ELSE <<MaxOf({rel.SecurityFixes[i].CVSS : i \in DOMAIN rel.SecurityFixes})>>

\* two scores, the larger one looked up first
C5_Witness ==
    /\ Len(latestVersion.SecurityFixes) = 2
    /\ latestVersion.SecurityFixes[1].CVSS > latestVersion.SecurityFixes[2].CVSS
    /\ latestVersion.SecurityFixes[2].CVSS > 0
    /\ latestVersion.MaxCVSS = <<latestVersion.SecurityFixes[1].CVSS>>

\* C6: parseReleaseNotes returns every distinct identifier of the notes exactly
\* once; Get looks each up once, in that order, and a release it returns has no
\* two vulnerabilities with the same ID.
C6_Deduplicated ==
    /\ pc = "Get_Loop" =>
          /\ \A i, j \in DOMAIN cveIDs : cveIDs[i] = cveIDs[j] => i = j
          /\ Range(cveIDs) = UniqueIDs(releaseNotes)
          /\ Len(securityFixes) <= Len(cveIDs)
          /\ \A i \in DOMAIN securityFixes : securityFixes[i].ID = cveIDs[i]
    /\ \A rel \in ReturnedByGet :
          \A i, j \in DOMAIN rel.SecurityFixes :
             rel.SecurityFixes[i].ID = rel.SecurityFixes[j].ID => i = j

\* notes with three occurrences of two identifiers, both looked up
C6_Witness ==
    /\ pc = "Get_Loop"
    /\ Len(FindAllString(releaseNotes)) = 3
    /\ Len(cveIDs) = 2
    /\ Len(securityFixes) = 2

\* C7: no reader is inside its read section while GetChannel,
\* GetInstalledVersion, GetLatestVersion or UpdateError is inside its write
\* section.
C7_ReadersExcludeWriter ==
    /\ writer <=> pc \in WritePcs
    /\ writer => readers = {}

\* a write is pending while every reader is inside its read section
C7_Witness ==
    /\ pc = "GetInstalledVersion_Lock"
    /\ readers = Readers

\* C8: the poll goroutine holds the repository lock in no mode while a file
\* read or an HTTP exchange is in progress; it holds it only between the end of
\* an operation's I/O and that operation's return.
C8_NoLockDuringIO ==
    /\ pc \in IOPcs => (~writer /\ Poller \notin readers)
    /\ writer => pc \in WritePcs
    /\ Poller \in readers => pc \notin IOPcs \cup LockPcs \cup {"NewTicker", "WaitTick", "startPoll"}

\* a scoring lookup in progress while a reader reads the snapshot
C8_Witness ==
    /\ pc = "Get_Loop"
    /\ Len(securityFixes) < Len(cveIDs)
    /\ readers # {}
    /\ ~writer

\* C9 as claimed: GetLatestVersion reads r.channel while holding the lock in
\* shared mode.
C9_ChannelReadUnderRLock ==
    pc = "GetLatestVersion" => Poller \in readers

\* C9, amended: GetLatestVersion reads r.channel holding the lock in no mode;
\* the read is made by the poll goroutine, the only writer of r.channel, so no
\* write is in progress and the uri is built from the channel as stored.
C9_ChannelReadUnlocked ==
    /\ pc \in {"GetLatestVersion", "GetLatestVersion_Do"} =>
          (Poller \notin readers /\ ~writer)
    /\ pc = "GetLatestVersion_Do" => uri = channel

\* the channel has been read for the uri while a reader holds the lock
C9_Witness ==
    /\ pc = "GetLatestVersion_Do"
    /\ uri = "beta"
    /\ readers # {}

\* the catalog decodes, holds an object for rel, and that object has no
\* release_notes string
NoReleaseNotes(body, rel) ==
    /\ body.t = "object"
    /\ rel \in DOMAIN body.fields
    /\ body.fields[rel].t = "object"
    /\ \/ "release_notes" \notin DOMAIN body.fields[rel].fields
       \/ body.fields[rel].fields.release_notes.t # "string"

\* C10 as claimed: for a catalog entry without a release_notes string Get
\* returns an error value (MalformedCatalogEntry) to the refresh that called
\* it, which the cycle records as the last error; the poll goroutine does not
\* end in a runtime panic and goes on to later cycles.
C10_MalformedEntryIsAnError ==
    (release # "" /\ NoReleaseNotes(world.releases, release)) =>
        /\ pc # "panic"
        /\ pc \in {"UpdateError_Lock", "UpdateError_Write", "NewTicker", "WaitTick"} =>
              cycleErr = MalformedCatalogEntry

Channels == {"stable", "beta", "alpha"}

\* C11 as claimed: from the creation of the repository onward the stored
\* channel is one of "stable", "beta", "alpha".
C11_ChannelAlwaysOneOfThree == channel \in Channels

C11_State ==
    /\ channel \in Channels \cup {""}
    /\ (cycleLog # <<>> /\ cycleLog[1].err = Nil) => channel \in Channels

C11_Step ==
    /\ channel \in Channels => channel' \in Channels
    /\ channel' # channel => pc = "GetChannel_Write"

\* C11, amended: the stored channel is the empty string from the creation of
\* the repository until a GetChannel first succeeds; from that write on it is
\* one of "stable", "beta", "alpha", and only GetChannel's write changes it.
C11_ChannelEmptyThenOneOfThree == []C11_State /\ [][C11_Step]_vars

\* a whole cycle has run, GetChannel failed, and the channel is still empty
C11_Witness ==
    /\ pc = "WaitTick"
    /\ Len(cycleLog) = 1
    /\ err = IOError
    /\ channel = ""

\* C12 as claimed: from process start the installed and the latest release
\* both have MaxCVSS set, and it is -1 whenever the release has no
\* vulnerabilities.
C12_MaxCVSSAlwaysSet ==
    \A rel \in {installedVersion, latestVersion} :
        /\ Len(rel.MaxCVSS) = 1
        /\ rel.SecurityFixes = <<>> => rel.MaxCVSS = <<MaxCVSSSeed>>

\* C12, amended: a stored release is the zero value, whose MaxCVSS is nil,
\* until the first successful refresh of its field; from then on its MaxCVSS
\* is set, and is -1 whenever the release has no vulnerabilities.
C12_MaxCVSSSetOnceRefreshed ==
    /\ \A rel \in {installedVersion, latestVersion} :
          \/ rel = ZeroRelease /\ rel.MaxCVSS = <<>>
          \/ /\ Len(rel.MaxCVSS) = 1
             /\ rel.SecurityFixes = <<>> => rel.MaxCVSS = <<MaxCVSSSeed>>
    /\ (Len(cycleLog) >= 2 /\ cycleLog[2].err = Nil) => installedVersion # ZeroRelease
    /\ AllSucceeded => latestVersion # ZeroRelease

\* the installed release was refreshed and has no vulnerabilities, the latest
\* release is still the zero value
C12_Witness ==
    /\ installedVersion # ZeroRelease
    /\ installedVersion.SecurityFixes = <<>>
    /\ installedVersion.MaxCVSS = <<MaxCVSSSeed>>
    /\ latestVersion = ZeroRelease
    /\ latestVersion.MaxCVSS = <<>>
    /\ pc = "WaitTick"

\* the loop of Get (lines 186-190) run over fixes: what it leaves in maxCVSS
RECURSIVE RunningMax(_, _)
RunningMax(fixes, m) ==
    IF fixes = <<>> THEN m ELSE RunningMax(Tail(fixes), Max(m, Head(fixes).CVSS))

\* C13: the maximum severity and the set of vulnerabilities of a release that
\* Get returns do not depend on the order in which parseReleaseNotes hands over
\* the identifiers: with the same lookup result per identifier, the loop of Get
\* run in any other order leaves the same maximum and the same set.
C13_OrderIndependent ==
    \A rel \in ReturnedByGet :
        \A order \in MapOrders(Range(rel.SecurityFixes)) :
            /\ Len(order) = Len(rel.SecurityFixes)
            /\ Range(order) = Range(rel.SecurityFixes)
            /\ rel.MaxCVSS = <<RunningMax(order, MaxCVSSSeed)>>

\* the same notes were enriched in one cycle and, in the other order of the
\* identifiers, in the next: the two releases list the same two fixes the other
\* way round and carry the same maximum
C13_Witness ==
    /\ pc = "GetLatestVersion_Lock"
    /\ Len(latestVersion.SecurityFixes) = 2
    /\ Len(enriched.SecurityFixes) = 2
    /\ latestVersion.SecurityFixes[1] = enriched.SecurityFixes[2]
    /\ latestVersion.SecurityFixes[2] = enriched.SecurityFixes[1]
    /\ latestVersion.SecurityFixes[1].CVSS # latestVersion.SecurityFixes[2].CVSS
    /\ latestVersion.SecurityFixes[1].err = Nil
    /\ latestVersion.SecurityFixes[2].err = Nil
    /\ latestVersion.MaxCVSS = enriched.MaxCVSS

\* GetChannel has returned nil in this cycle and GetInstalledVersion has not
\* yet asked for the lock
BetweenChannelAndInstalled ==
    \/ pc = "GetInstalledVersion"
    \/ pc \in {"Get", "Get_Loop"} /\ caller = "GetInstalledVersion"

C14_State ==
    BetweenChannelAndInstalled =>
        /\ ~writer
        /\ channel = Normalize(valueFromFile("GROUP=", world.updateConf).val)
        /\ \A r \in Readers \ readers : ENABLED RLock(r)

C14_Step ==
    pc = "GetChannel_Write" =>
        /\ ~writer'
        /\ installedVersion' = installedVersion
        /\ latestVersion' = latestVersion

\* C14: the refreshes of a cycle are committed one by one: the write of the
\* channel releases the lock with installedVersion and latestVersion as an
\* earlier cycle (or the creation) left them, and for the whole of
\* GetInstalledVersion's I/O the lock is free for any reader, who then sees this
\* cycle's channel next to those older releases.
C14_NotOneTransaction == []C14_State /\ [][C14_Step]_vars

\* a reader holds the shared lock between GetChannel and the write of
\* GetInstalledVersion: the channel is "stable", written by this cycle from
\* GROUP=coreUpdateChan1, the installed release is the one an earlier cycle
\* stored when the catalog held other notes, the latest release likewise
C14_Witness ==
    /\ readers # {}
    /\ pc = "Get"
    /\ caller = "GetInstalledVersion"
    /\ world = WorldCoreUpdate
    /\ channel = "stable"
    /\ installedVersion.ReleaseNotes = NotesOne
    /\ installedVersion.ReleaseNotes # world.releases.fields[Installed].fields.release_notes.chars
    /\ latestVersion # ZeroRelease

\* the refresh step being executed returns e in this step
Returns(e) ==
    /\ StepAt # ""
    /\ Len(cycleLog') >= Len(cycleLog)
    /\ cycleLog'[Len(cycleLog)].err = e

ReturnsError == \E e \in {cycleLog'[i].err : i \in DOMAIN cycleLog'} \ {Nil, Running} : Returns(e)

C15_Step ==
    /\ channel' # channel =>
          (pc = "GetChannel_Write" /\ UNCHANGED <<installedVersion, latestVersion, err>>)
    /\ installedVersion' # installedVersion =>
          (pc = "GetInstalledVersion_Write" /\ UNCHANGED <<channel, latestVersion, err>>)
    /\ latestVersion' # latestVersion =>
          (pc = "GetLatestVersion_Write" /\ UNCHANGED <<channel, installedVersion, err>>)
    /\ err' # err =>
          (pc = "UpdateError_Write" /\ UNCHANGED <<channel, installedVersion, latestVersion>>)
    /\ (~writer /\ writer') => (pc \in LockPcs /\ pc' = WriteOf(pc))
    /\ (writer /\ ~writer') => (pc \in WritePcs /\ pc' \notin WritePcs)
    /\ pc \in WritePcs \ {"UpdateError_Write"} => Returns(Nil)
    /\ ReturnsError => (~writer /\ UNCHANGED repo)

\* C15: GetChannel changes at most channel, GetInstalledVersion at most
\* installedVersion, GetLatestVersion at most latestVersion and UpdateError at
\* most err, each inside the one critical section the operation takes just
\* before it returns; a refresh that returns an error never entered its critical
\* section and leaves channel, installedVersion, latestVersion and err unchanged.
C15_Frame == [][C15_Step]_vars

\* GetLatestVersion has just failed in a cycle after a successful one: the
\* releases, the channel and the nil error of the earlier cycle are still stored
C15_Witness ==
    /\ pc = "UpdateError_Lock"
    /\ Len(cycleLog) = 3
    /\ cycleErr = TransportError
    /\ latestVersion # ZeroRelease
    /\ installedVersion # ZeroRelease
    /\ channel = "beta"
    /\ err = Nil

\* the calls of GetJSON(r.client, releasesUri) the current cycle has made, by
\* the position of the poll goroutine
FetchesSoFar ==
    CASE StepAt = "GetChannel" -> 0
      [] pc = "GetInstalledVersion" -> 0
      [] pc = "Get" /\ caller = "GetInstalledVersion" -> 0
      [] StepAt = "GetInstalledVersion" -> 1
      [] pc \in {"GetLatestVersion", "GetLatestVersion_Do"} -> 1
      [] pc = "Get" /\ caller = "GetLatestVersion" -> 1
      [] StepAt = "GetLatestVersion" -> 2
      [] OTHER -> fetches

\* C16: every call of Get fetches the catalog exactly once and no call reuses
\* an earlier fetch: a cycle whose three steps succeed has fetched it exactly
\* twice, a cycle that fails in GetInstalledVersion at most once, and a cycle
\* that fails in GetChannel not at all.
C16_CatalogFetches ==
    /\ fetches = FetchesSoFar
    /\ (cycleLog # <<>> /\ LastStep.err # Running) =>
          /\ AllSucceeded => fetches = 2
          /\ Len(cycleLog) = 3 => fetches \in {1, 2}
          /\ Len(cycleLog) = 2 => fetches <= 1
          /\ Len(cycleLog) = 1 => fetches = 0

\* a cycle has failed in GetInstalledVersion after its one catalog fetch, and
\* the cycle before it had succeeded with two
C16_Witness ==
    /\ pc = "UpdateError_Lock"
    /\ Len(cycleLog) = 2
    /\ cycleErr = ReleaseNotFound
    /\ fetches = 1
    /\ err = Nil
    /\ latestVersion # ZeroRelease

\* C19: whenever GetLatestVersion runs, GetChannel has returned nil earlier in
\* the same cycle, so the stored channel it reads is one of "stable", "beta",
\* "alpha" and is the value that GetChannel normalised from the GROUP= line it
\* read in this cycle: never the initial empty string, never what an earlier
\* cycle stored.
C19_ChannelOfThisCycle ==
    StepAt = "GetLatestVersion" =>
        /\ cycleLog[1].op = "GetChannel"
        /\ cycleLog[1].err = Nil
        /\ channel \in Channels
        /\ lastGroup = valueFromFile("GROUP=", world.updateConf).val
        /\ channel = Normalize(lastGroup)
        /\ pc # "GetLatestVersion" => uri = channel

\* GetLatestVersion has built its uri for "stable", read from
\* GROUP=coreUpdateChan1 in this cycle, while the stored latest release is
\* still the one a cycle on another channel's files left
C19_Witness ==
    /\ pc = "GetLatestVersion_Do"
    /\ world = WorldCoreUpdate
    /\ uri = "stable"
    /\ changes = 1
    /\ latestVersion.ReleaseNotes = NotesDup

\* a cycle is running: pollCoreOSReleases or the UpdateError after it
CycleRunning ==
    pc \in {"UpdateError_Lock", "UpdateError_Write"} \/ StepAt # ""

\* C17 as claimed: cycles do not overlap and are not queued, and whenever a
\* cycle has run longer than the interval the next cycle starts as soon as the
\* loop is back at its wait.
C17_NextStartsAtOnce ==
    /\ pollC \in {0, 1}
    /\ (pc = "WaitTick" /\ fired >= 1) => ENABLED Tick

C17_State ==
    /\ pollC \in {0, 1}
    /\ pollC <= fired
    /\ ~ticker => pollC = 0
    /\ (ticker /\ CycleRunning /\ fired >= 1) => pollC = 1
    /\ (pc = "WaitTick" /\ pollC = 1) => ENABLED Tick
    /\ (pc = "WaitTick" /\ pollC = 0) => ~ENABLED Tick

C17_Step ==
    /\ (pc' = "GetChannel" /\ pc # "GetChannel") =>
          \/ pc = "startPoll"
          \/ /\ pc = "WaitTick"
             /\ LastStep.err # Running
             /\ err = cycleErr
             /\ ~writer
             /\ pollC = 1
             /\ pollC' = 0
             /\ fired' = 0
    /\ fired' > fired => (pc' = pc /\ cycleLog' = cycleLog)

\* C17, amended: one cycle runs at a time and none is queued: a cycle starts
\* only from the wait on poll.C, after the previous cycle and its UpdateError
\* have finished, by taking the one tick poll.C can hold.  The ticker is
\* created after the first cycle, so no tick waits when the first cycle ends,
\* however long it ran.  In every later cycle a tick that fires while the cycle
\* runs waits in poll.C and starts the next cycle as soon as the loop is back
\* at the wait; every further tick fired meanwhile is dropped, so the ticks of
\* a long cycle start one cycle, after which poll.C is empty.
C17_NoOverlapNoQueue == []C17_State /\ [][C17_Step]_vars

\* two periods have elapsed while GetLatestVersion of a later cycle waits for
\* its request: one tick waits in poll.C, the other was dropped
C17_Witness ==
    /\ pc = "GetLatestVersion_Do"
    /\ ticker
    /\ fired = 2
    /\ pollC = 1

\* C18 as claimed: a Do call has made at most 5 HTTP attempts when it gives up.
C18_AtMostFiveAttempts == attempt <= 5

C18_State ==
    /\ attempt <= RetryMax + 1
    /\ ~InDo => attempt = 0

\* Do returns its error in this step
DoGivesUp == InDo /\ Exhausted /\ attempt' = 0

C18_Step ==
    /\ (InDo /\ pc' = "UpdateError_Lock" /\ cycleErr' = TransportError) => Exhausted
    /\ (DoGivesUp /\ pc \in {"Get", "GetLatestVersion_Do"}) =>
          (pc' = "UpdateError_Lock" /\ cycleErr' = TransportError)
    /\ (DoGivesUp /\ pc = "Get_Loop") =>
          /\ Len(securityFixes') = Len(securityFixes) + 1
          /\ securityFixes'[Len(securityFixes')].err = TransportError
          /\ pc' = "Get_Loop"

\* C18, amended: a Do call gives up after at most 6 HTTP attempts, the first
\* one and RetryMax = 5 retries, and not before; the refresh then returns the
\* error (Get's lookup loop records it and goes on to the next identifier), so
\* the same request is not sent again in the cycle.
C18_AtMostSixAttempts == []C18_State /\ [][C18_Step]_vars

\* the sixth attempt of GetLatestVersion's request has failed
C18_Witness ==
    /\ pc = "GetLatestVersion_Do"
    /\ attempt = RetryMax + 1
    /\ attempt = 6

\* the stored state is what the three steps of the cycle produced from the
\* files and endpoints
HoldsCycleResults ==
    LET installed == valueFromFile("COREOS_RELEASE_VERSION=", world.releaseConf).val
        latest == parseCoreOSVersion(PageFor(channel).body).val
    IN  /\ channel = Normalize(valueFromFile("GROUP=", world.updateConf).val)
        /\ installedVersion.Version = installed
        /\ installedVersion.ReleaseNotes = Lookup(world.releases, installed).notes
        /\ latestVersion.Version = latest
        /\ latestVersion.ReleaseNotes = Lookup(world.releases, latest).notes
        /\ {installedVersion, latestVersion} \subseteq ReturnedByGet

C20_AnotherCycle ==
    (pc = "UpdateError_Write" /\ cycleErr # Nil) ~> (pc = "GetChannel")

C20_ErrorCleared ==
    (pc = "UpdateError_Lock" /\ AllSucceeded) ~>
        (pc \in {"NewTicker", "WaitTick"} /\ AllSucceeded /\ err = Nil)

C20_Results ==
    (AllSucceeded /\ pc \in {"UpdateError_Lock", "UpdateError_Write", "NewTicker", "WaitTick"}) =>
        /\ HoldsCycleResults
        /\ pc \in {"NewTicker", "WaitTick"} => err = Nil

\* C20: while the goroutine keeps running, every file read and request returns
\* and the periods keep elapsing, a cycle that hands a non-nil error to
\* UpdateError is followed by a further cycle; a cycle whose three steps
\* succeed leaves the last error nil and the channel, the installed and the
\* latest release as that cycle produced them, whatever the cycle before
\* recorded.
C20_PollingGoesOn == C20_AnotherCycle /\ C20_ErrorCleared /\ []C20_Results

\* the three steps of a cycle have succeeded while the error of the failed
\* cycle before it is still stored, about to be overwritten with nil
C20_Witness ==
    /\ pc = "UpdateError_Write"
    /\ AllSucceeded
    /\ cycleErr = Nil
    /\ err = TransportError
    /\ HoldsCycleResults

====
